---------------------------- MODULE Spec2Model ----------------------------
(***************************************************************************)
(* Bercario Estelar: the N-body engine of App.tsx (PhysicsSystem), the     *)
(* registry handlers of App (handleMerger, handleMassTransfer,             *)
(* handleCloudClick, spawnCloud, generateUniverse) and the cloud           *)
(* component's click guard.                                                *)
(*                                                                         *)
(* Numbers.  The source computes in IEEE doubles.  Here every stored       *)
(* number lies on a decimal grid: positions and velocities in tenths,      *)
(* masses in tenths, radii in hundredths, dt and ages in whole units.      *)
(* Each step of the pair loop is computed in exact rational arithmetic     *)
(* from the stored numbers and is rounded (to the nearest) only when it is *)
(* stored, as a double is rounded when it is stored.  NaN is a value of    *)
(* its own, produced by 0/0 as in the source.                              *)
(*                                                                         *)
(* Specifications.  Spec is the application from the universe that         *)
(* generateUniverse builds on mount.  PairSpec runs the frame callback on  *)
(* registries of two stars drawn from bounded sets, and CloudSpec runs the *)
(* collapse of one cloud whose mass is drawn from a bounded set: they      *)
(* exercise the pair loop and the classification as functions of their     *)
(* inputs.  TripleSpec runs the frame callback on registries of three      *)
(* stars, FeedSpec runs it on registries of two stars together with the    *)
(* universe reset, SpawnSpec runs the spawner on the universe near its     *)
(* population cap, and BirthSpec runs collapses with every way their       *)
(* description request settles.  FairSpec and BirthSpec state the fairness *)
(* of the event loop: a timer that is due runs, an awaited promise that    *)
(* has settled resumes its callback.                                       *)
(***************************************************************************)
EXTENDS Integers, Sequences, FiniteSets, TLC

---------------------------------------------------------------------------
(* Exact rationals [n, d], d > 0, in lowest terms.                         *)

Abs(x) == IF x < 0 THEN -x ELSE x

Sgn(x) == IF x < 0 THEN -1 ELSE IF x > 0 THEN 1 ELSE 0

RECURSIVE GCD(_, _)
GCD(a, b) == IF b = 0 THEN a ELSE GCD(b, a % b)

R(n, d) ==
    LET g == GCD(Abs(n), Abs(d))
        s == IF d < 0 THEN -1 ELSE 1
    IN  [n |-> s * (n \div g), d |-> s * (d \div g)]

RInt(k) == [n |-> k, d |-> 1]

RNeg(a) == [n |-> -a.n, d |-> a.d]

RMul(a, b) ==
    LET g1 == GCD(Abs(a.n), b.d)
        g2 == GCD(Abs(b.n), a.d)
    IN  [n |-> (a.n \div g1) * (b.n \div g2), d |-> (a.d \div g2) * (b.d \div g1)]

RInv(a) == IF a.n < 0 THEN [n |-> -a.d, d |-> -a.n] ELSE [n |-> a.d, d |-> a.n]

RDiv(a, b) == RMul(a, RInv(b))

RAdd(a, b) ==
    LET g == GCD(a.d, b.d)
    IN  R(a.n * (b.d \div g) + b.n * (a.d \div g), (a.d \div g) * b.d)

RLt(a, b) ==
    LET g == GCD(a.d, b.d)
    IN  a.n * (b.d \div g) < b.n * (a.d \div g)

RECURSIVE ISqrtFrom(_, _)
ISqrtFrom(n, x) ==
    LET y == (x + n \div x) \div 2
    IN  IF y >= x THEN x ELSE ISqrtFrom(n, y)

(* floor(sqrt(n)) for n >= 0, by Newton's iteration from above.            *)
ISqrt(n) == IF n = 0 THEN 0 ELSE ISqrtFrom(n, n)

RECURSIVE ICbrtFrom(_, _)
ICbrtFrom(n, x) ==
    LET y == (2 * x + n \div (x * x)) \div 3
    IN  IF y >= x THEN x ELSE ICbrtFrom(n, y)

(* floor(cbrt(n)) for n >= 0; the start 1291 > cbrt(2^31).                 *)
ICbrt(n) == IF n = 0 THEN 0 ELSE ICbrtFrom(n, 1291)

---------------------------------------------------------------------------
(* Units of the grid: a stored position or velocity component p stands for *)
(* p/10, a mass m for m/10, a radius r for r/100.                          *)

Pos(p) == R(p, 10)

Mass(m) == R(m, 10)

Rad(r) == R(r, 100)

(* Rounding of an exact velocity increment to the grid (half away from 0).  *)
ToGrid(q) ==
    LET t == RMul(q, RInt(10))
    IN  Sgn(t.n) * ((2 * Abs(t.n) + t.d) \div (2 * t.d))

(* 3-vectors of grid numbers; nan marks a vector whose components are NaN. *)
Vec(x, y, z) == [nan |-> FALSE, x |-> x, y |-> y, z |-> z]

NaNVec == [nan |-> TRUE, x |-> 0, y |-> 0, z |-> 0]

VAdd(u, v) ==
    IF u.nan \/ v.nan THEN NaNVec ELSE Vec(u.x + v.x, u.y + v.y, u.z + v.z)

VSub(u, v) ==
    IF u.nan \/ v.nan THEN NaNVec ELSE Vec(u.x - v.x, u.y - v.y, u.z - v.z)

VScale(u, k) == IF u.nan THEN NaNVec ELSE Vec(u.x * k, u.y * k, u.z * k)

VDot(u, v) == u.x * v.x + u.y * v.y + u.z * v.z

---------------------------------------------------------------------------
(* Program constants.                                                      *)

G == R(1, 2)

SOFTENING == RInt(2)

TimeScales == {-8, -2, 0, 1, 4, 8}

NoId == 0

CompactTypes == {"BlackHole", "SupermassiveBlackHole", "Quasar"}

(* A StarData value that stands for "no object".                           *)
NoStar ==
    [id |-> NoId, pos |-> Vec(0, 0, 0), vel |-> Vec(0, 0, 0), mass |-> 0,
     type |-> "None", radius |-> 0, age |-> 0, consumedBy |-> NoId,
     isShredding |-> FALSE]

(* type.includes('Buraco Negro') || type === StarType.QUASAR               *)
IsBH(s) == s.type \in CompactTypes

---------------------------------------------------------------------------
(* Exact 3-vectors: components are rationals in real units.                *)

RVec(x, y, z) == [nan |-> FALSE, x |-> x, y |-> y, z |-> z]

RNaN == [nan |-> TRUE, x |-> RInt(0), y |-> RInt(0), z |-> RInt(0)]

RVScale(u, k) ==
    IF u.nan THEN RNaN ELSE RVec(RMul(u.x, k), RMul(u.y, k), RMul(u.z, k))

(* The exact value of a stored vector.                                     *)
Exact(v) == IF v.nan THEN RNaN ELSE RVec(Pos(v.x), Pos(v.y), Pos(v.z))

(* A stored vector plus an exact increment, as stored.                     *)
Bump(v, dv) ==
    IF v.nan \/ dv.nan THEN NaNVec
    ELSE Vec(v.x + ToGrid(dv.x), v.y + ToGrid(dv.y), v.z + ToGrid(dv.z))

(* An exact vector as stored.                                              *)
Stored(q) == IF q.nan THEN NaNVec ELSE Vec(ToGrid(q.x), ToGrid(q.y), ToGrid(q.z))

---------------------------------------------------------------------------
(* PhysicsSystem: geometry and zones of one pair (bodyA, bodyB).           *)

(* dx, dy, dz                                                              *)
Delta(a, b) == VSub(b.pos, a.pos)

(* distSq in grid units squared                                            *)
DistSqG(d) == VDot(d, d)

DistSq(d) == R(DistSqG(d), 100)

(* dist = Math.sqrt(distSq), rounded to the grid                           *)
Dist(d) == Pos(ISqrt(DistSqG(d)))

CombinedRadius(a, b) == Rad(a.radius + b.radius)

MergeThreshold(a, b) == RMul(CombinedRadius(a, b), R(4, 10))

CaptureRadius(a, b) == RMul(CombinedRadius(a, b), RInt(6))

(* A feeding zone that only the first body of the pair opens.             *)
C6_FirstOnly(a, b) ==
    RMul(CombinedRadius(a, b), RInt(IF IsBH(a) THEN 8 ELSE 0))

FeedingThreshold(a, b) ==
    RMul(CombinedRadius(a, b), RInt(IF IsBH(a) \/ IsBH(b) THEN 8 ELSE 0))

(* dist < t and dist > t for a threshold t >= 0, decided on the squares    *)
(* (Math.sqrt is monotone); every comparison with NaN is false.            *)
DistLt(d, t) == ~d.nan /\ RLt(DistSq(d), RMul(t, t))

DistGt(d, t) == ~d.nan /\ RLt(RMul(t, t), DistSq(d))

(* Determine Predator/Prey: TRUE when bodyB is the winner.                 *)
WinnerIsB(a, b) ==
    IF IsBH(b) /\ ~IsBH(a) THEN TRUE
    ELSE IF b.mass > a.mass /\ ~IsBH(a) THEN TRUE
    ELSE FALSE

---------------------------------------------------------------------------
(* Standard Gravity.                                                       *)

Force(a, b) ==
    RDiv(RMul(RMul(G, Mass(a.mass)), Mass(b.mass)),
         RAdd(DistSq(Delta(a, b)), SOFTENING))

(* (fx, fy, fz) = force * (dx, dy, dz) / dist; 0/0 is NaN.                 *)
ForceVec(a, b) ==
    LET d == Delta(a, b)
    IN  IF d.nan \/ DistSqG(d) = 0 THEN RNaN
        ELSE LET k == RDiv(Force(a, b), Dist(d))
             IN  RVec(RMul(Pos(d.x), k), RMul(Pos(d.y), k), RMul(Pos(d.z), k))

(* bodyA.velocity += (f / bodyA.mass) * dt, for f = (fx, fy, fz)           *)
GravityDvA(a, f, dt) == RVScale(f, RDiv(RInt(dt), Mass(a.mass)))

(* The increment with the sign of bodyA's.                                 *)
C7_SameSign(b, f, dt) == RVScale(f, RDiv(RInt(dt), Mass(b.mass)))

(* bodyB.velocity -= (f / bodyB.mass) * dt                                 *)
GravityDvB(b, f, dt) == RVScale(f, RNeg(RDiv(RInt(dt), Mass(b.mass))))

---------------------------------------------------------------------------
(* Orbital capture and stabilization.                                      *)

InCapture(a, b) ==
    LET d == Delta(a, b)
    IN  DistLt(d, CaptureRadius(a, b)) /\ DistGt(d, MergeThreshold(a, b))

RelV(a, b) == VSub(b.vel, a.vel)

(* radialVel > 0: the sign of relV . (dx, dy, dz), dist being positive     *)
Separating(a, b) ==
    LET rv == RelV(a, b)
    IN  ~rv.nan /\ VDot(rv, Delta(a, b)) > 0

Damping(a, b, dt) ==
    IF Separating(a, b) THEN RMul(R(1, 10), RInt(dt))
    ELSE RMul(R(5, 1000), RInt(dt))

(* fDamp = relV * damping                                                  *)
FDamp(a, b, dt) == RVScale(Exact(RelV(a, b)), Damping(a, b, dt))

(* A split that gives bodyA half of the change whatever the masses are.    *)
C22_EqualSplit(a, b, fd) == RVScale(fd, R(1, 2))

(* bodyA.velocity += fDamp * (mB / (mA + mB))                              *)
DampDvA(a, b, fd) == RVScale(fd, R(b.mass, a.mass + b.mass))

(* bodyB.velocity -= fDamp * (mA / (mA + mB))                              *)
DampDvB(a, b, fd) == RVScale(fd, RNeg(R(a.mass, a.mass + b.mass)))

---------------------------------------------------------------------------
(* Feeding and merging.                                                    *)

InMerge(a, b) == DistLt(Delta(a, b), MergeThreshold(a, b))

InFeed(a, b) == ~InMerge(a, b) /\ DistLt(Delta(a, b), FeedingThreshold(a, b))

(* The plain mean of the two velocities.                                  *)
C1_PlainMean(w, l) ==
    IF w.vel.nan \/ l.vel.nan THEN RNaN
    ELSE RVec(R(w.vel.x + l.vel.x, 20), R(w.vel.y + l.vel.y, 20),
              R(w.vel.z + l.vel.z, 20))

(* (winner.velocity * winner.mass + loser.velocity * loser.mass)/totalMass *)
MergeVelocity(w, l) ==
    IF w.vel.nan \/ l.vel.nan THEN RNaN
    ELSE LET t == w.mass + l.mass
         IN  RVec(R(w.vel.x * w.mass + l.vel.x * l.mass, 10 * t),
                  R(w.vel.y * w.mass + l.vel.y * l.mass, 10 * t),
                  R(w.vel.z * w.mass + l.vel.z * l.mass, 10 * t))

MergeMass(w, l) == w.mass + l.mass

(* The radii added up.                                                     *)
C18_SumOfRadii(w, l) == w.radius + l.radius

(* Math.pow(Math.pow(rw, 3) + Math.pow(rl, 3), 1/3), rounded to the grid   *)
MergeRadius(w, l) ==
    ICbrt(w.radius * w.radius * w.radius + l.radius * l.radius * l.radius)

(* A feeding branch without its mass guard.                                *)
C23_AlwaysFeeds(l) == TRUE

(* loser.mass > 0.1                                                        *)
CanFeed(l) == RLt(R(1, 10), Mass(l.mass))

TransferRate(dt) == RMul(R(1, 10), RInt(dt))

SpiralDrag(dt) == RMul(R(5, 100), RInt(dt))

(* loser.velocity -= relV * spiralDrag                                     *)
DragDv(a, b, dt) == RVScale(Exact(RelV(a, b)), RNeg(SpiralDrag(dt)))

---------------------------------------------------------------------------
(* One iteration of the inner loop body for (bodyA, bodyB) = (a, b).       *)
(* a0,b0: the bodies when the iteration starts; a2,b2: after gravity and   *)
(* the capture damping; a3,b3: after merging or feeding.                   *)

(* Both bodies after "Standard Gravity".                                   *)
GravityApplied(a, b, f, dt) ==
    [a |-> [a EXCEPT !.vel = Bump(a.vel, GravityDvA(a, f, dt))],
     b |-> [b EXCEPT !.vel = Bump(b.vel, GravityDvB(b, f, dt))]]

AfterGravity(a, b, dt) == GravityApplied(a, b, ForceVec(a, b), dt)

(* Both bodies after "Orbital Capture and Stabilization".                  *)
DampingApplied(p, fd) ==
    [a |-> [p.a EXCEPT !.vel = Bump(p.a.vel, DampDvA(p.a, p.b, fd))],
     b |-> [p.b EXCEPT !.vel = Bump(p.b.vel, DampDvB(p.a, p.b, fd))]]

AfterDamping(p, damped, dt) ==
    IF damped THEN DampingApplied(p, FDamp(p.a, p.b, dt)) ELSE p

(* The winner after "MERGE EVENT".                                         *)
MergedWinner(w, l) ==
    [w EXCEPT !.vel = Stored(MergeVelocity(w, l)),
              !.mass = MergeMass(w, l),
              !.radius = MergeRadius(w, l)]

(* The loser after "FEEDING EVENT"; p holds bodyA and bodyB.               *)
FedLoser(w, l, p, dt) ==
    [l EXCEPT !.consumedBy = w.id,
              !.isShredding = TRUE,
              !.vel = Bump(l.vel, DragDv(p.a, p.b, dt))]

PairRecord(a, b, p, winB, damped, merged, fed, w3, l3) ==
    [a0 |-> a, b0 |-> b, a2 |-> p.a, b2 |-> p.b,
     a3 |-> IF winB THEN l3 ELSE w3, b3 |-> IF winB THEN w3 ELSE l3,
     winB |-> winB, damped |-> damped, merged |-> merged, fed |-> fed]

(* An iteration that clears the loser's flags when it does not feed.       *)
C28_ClearsFlags(a, b, p, winB, damped, merged, fed, w, l, dt) ==
    PairRecord(a, b, p, winB, damped, merged, fed,
               IF merged THEN MergedWinner(w, l) ELSE w,
               IF fed THEN FedLoser(w, l, p, dt)
               ELSE [l EXCEPT !.consumedBy = NoId, !.isShredding = FALSE])

MergeOrFeed(a, b, p, winB, damped, merged, fed, w, l, dt) ==
    PairRecord(a, b, p, winB, damped, merged, fed,
               IF merged THEN MergedWinner(w, l) ELSE w,
               IF fed THEN FedLoser(w, l, p, dt) ELSE l)

PairOutcome(a, b, p, winB, damped, merged, feed, dt) ==
    MergeOrFeed(a, b, p, winB, damped, merged,
                feed /\ CanFeed(IF winB THEN a ELSE b),
                IF winB THEN p.b ELSE p.a, IF winB THEN p.a ELSE p.b, dt)

PairDamped(a, b, winB, damped, merged, dt) ==
    PairOutcome(a, b, AfterDamping(AfterGravity(a, b, dt), damped, dt),
                winB, damped, merged,
                ~merged /\ DistLt(Delta(a, b), FeedingThreshold(a, b)), dt)

EvalPair(a, b, dt) ==
    PairDamped(a, b, WinnerIsB(a, b), InCapture(a, b), InMerge(a, b), dt)

(* for (i = 0 ..) for (j = i + 1 ..): the pairs in the order of evaluation *)
RECURSIVE PairsFrom(_, _, _)
PairsFrom(i, j, n) ==
    IF i >= n THEN <<>>
    ELSE IF j > n THEN PairsFrom(i + 1, i + 2, n)
    ELSE <<<<i, j>>>> \o PairsFrom(i, j + 1, n)

Pairs(n) == PairsFrom(1, 2, n)

(* findIndex / find: the first index of the entry with this id, or 0       *)
FirstIdx(ss, id) ==
    IF \E k \in 1..Len(ss) : ss[k].id = id
    THEN CHOOSE k \in 1..Len(ss) :
            ss[k].id = id /\ \A m \in 1..(k - 1) : ss[m].id # id
    ELSE 0

(* handleMassTransfer's updater, run on the committed array whose entries  *)
(* are the objects the loop mutates: the index it replaces by a copy, or 0 *)
(* when it returns prevStars.                                              *)
MassTransferCopyIdx(objs, sourceId, targetId) ==
    LET si == FirstIdx(objs, sourceId)
        ti == FirstIdx(objs, targetId)
    IN  IF si = 0 \/ ti = 0 THEN 0
        ELSE IF ~objs[si].isShredding THEN si
        ELSE 0

(* The loop's state: objs are the objects of the array being iterated;     *)
(* copyIdx/copy the entry that a setStars updater, run at once because no  *)
(* update was pending (lanes = FALSE), replaced by a shallow copy; merged, *)
(* winner, loser the onMerger call; transfers the onMassTransfer calls.    *)
LoopStepWith(st, i, j, e) ==
    LET wId    == IF e.winB THEN e.b0.id ELSE e.a0.id
        lId    == IF e.winB THEN e.a0.id ELSE e.b0.id
        atCall == [st.objs EXCEPT ![i] = e.a2, ![j] = e.b2]
        ci     == IF e.fed /\ ~st.lanes
                  THEN MassTransferCopyIdx(atCall, lId, wId)
                  ELSE 0
    IN  [objs      |-> [st.objs EXCEPT ![i] = e.a3, ![j] = e.b3],
         copyIdx   |-> IF ci # 0 THEN ci ELSE st.copyIdx,
         copy      |-> IF ci # 0
                       THEN [atCall[ci] EXCEPT !.consumedBy = wId,
                                               !.isShredding = TRUE]
                       ELSE st.copy,
         lanes     |-> st.lanes \/ ci # 0,
         merged    |-> e.merged,
         winner    |-> IF e.merged THEN wId ELSE NoId,
         loser     |-> IF e.merged THEN lId ELSE NoId,
         transfers |-> IF e.fed
                       THEN Append(st.transfers,
                                   [source |-> lId, target |-> wId])
                       ELSE st.transfers,
         tr        |-> Append(st.tr, [i |-> i, j |-> j, e |-> e])]

LoopStep(st, pr, dt) ==
    LoopStepWith(st, pr[1], pr[2],
                 EvalPair(st.objs[pr[1]], st.objs[pr[2]], dt))

(* A pair loop that goes on after a merge.                                 *)
RECURSIVE C19_NoReturn(_, _, _, _)
C19_NoReturn(st, ps, k, dt) ==
    IF k > Len(ps) THEN st
    ELSE C19_NoReturn(LoopStep(st, ps[k], dt), ps, k + 1, dt)

(* The pair loop; it returns at the first merge.                           *)
RECURSIVE RunPairs(_, _, _, _)
RunPairs(st, ps, k, dt) ==
    IF k > Len(ps) \/ st.merged THEN st
    ELSE RunPairs(LoopStep(st, ps[k], dt), ps, k + 1, dt)

(* An age loop without its guard.                                          *)
C12_AgeAlways(ss, dt) ==
    [k \in 1..Len(ss) |-> [ss[k] EXCEPT !.age = @ + dt * 10]]

(* 1. Update Age                                                           *)
Aged(ss, dt) ==
    IF dt > 0 THEN [k \in 1..Len(ss) |-> [ss[k] EXCEPT !.age = @ + dt * 10]]
    ELSE ss

(* Update Positions                                                        *)
Moved(ss, dt) ==
    [k \in 1..Len(ss) |->
        [ss[k] EXCEPT !.pos = VAdd(@, VScale(ss[k].vel, dt))]]

LoopStart(ss, dt, lanes) ==
    [objs |-> Aged(ss, dt), copyIdx |-> 0, copy |-> NoStar,
     lanes |-> lanes, merged |-> FALSE, winner |-> NoId,
     loser |-> NoId, transfers |-> <<>>, tr |-> <<>>]

(* A callback that updates the positions after a merge too.                *)
C27_MovesAlways(st, dt) == [st EXCEPT !.objs = Moved(st.objs, dt)]

(* The merge returns from the callback before the positions are updated.   *)
FrameEnd(st, dt) ==
    IF st.merged THEN st ELSE [st EXCEPT !.objs = Moved(st.objs, dt)]

(* The frame callback up to its return, for dt # 0.                        *)
Frame(ss, dt, lanes) ==
    FrameEnd(RunPairs(LoopStart(ss, dt, lanes), Pairs(Len(ss)), 1, dt), dt)

(* The runs of the callback React can produce: an updater that changes     *)
(* nothing runs the same whether an update was pending or not.             *)
FrameChoice(ss, dt, eager) ==
    IF eager.copyIdx = 0 THEN {eager} ELSE {eager, Frame(ss, dt, TRUE)}

FrameOutcomes(ss, dt) == FrameChoice(ss, dt, Frame(ss, dt, FALSE))

(* A filter that keeps every entry.                                       *)
C2_KeepAll(ss, id) == ss

(* A filter that drops nothing from the clouds.                           *)
C9_KeepCloud(ss, id) == ss

RECURSIVE SelectSeqNotId(_, _)
SelectSeqNotId(ss, id) ==
    IF ss = <<>> THEN <<>>
    ELSE IF Head(ss).id = id THEN SelectSeqNotId(Tail(ss), id)
    ELSE <<Head(ss)>> \o SelectSeqNotId(Tail(ss), id)

(* The stars state after React has applied the frame's setStars updates:   *)
(* the copied entry keeps the primitives it had when it was copied and     *)
(* shares its position and velocity objects with the original; the loser   *)
(* of the merger is filtered out.                                          *)
Committed(st) ==
    LET arr == [k \in 1..Len(st.objs) |->
                  IF k = st.copyIdx
                  THEN [st.copy EXCEPT !.pos = st.objs[k].pos,
                                       !.vel = st.objs[k].vel]
                  ELSE st.objs[k]]
    IN  IF st.merged THEN SelectSeqNotId(arr, st.loser) ELSE arr

---------------------------------------------------------------------------
(* handleCloudClick: Determine Star Type.  mass in tenths, rand in         *)
(* hundredths.                                                             *)

(* The bands with their upper ends included.                              *)
C10_InclusiveBands(mass, rand) ==
    IF mass <= 150 THEN "BrownDwarf"
    ELSE IF mass <= 300 THEN "RedDwarf"
    ELSE IF mass <= 600 THEN (IF rand > 80 THEN "BinaryStar" ELSE "YellowDwarf")
    ELSE IF mass <= 800 THEN "BlueGiant"
    ELSE IF mass <= 900 THEN "NeutronStar"
    ELSE IF mass <= 980 THEN "BlackHole"
    ELSE "Quasar"

StarTypeOf(mass, rand) ==
    IF mass < 150 THEN "BrownDwarf"
    ELSE IF mass < 300 THEN "RedDwarf"
    ELSE IF mass < 600 THEN (IF rand > 80 THEN "BinaryStar" ELSE "YellowDwarf")
    ELSE IF mass < 800 THEN "BlueGiant"
    ELSE IF mass < 900 THEN "NeutronStar"
    ELSE IF mass < 980 THEN "BlackHole"
    ELSE "Quasar"

(* radius, in hundredths                                                   *)
StarRadiusOf(mass, rand) ==
    IF mass < 150 THEN 60
    ELSE IF mass < 300 THEN 80
    ELSE IF mass < 600 THEN (IF rand > 80 THEN 120 ELSE 150)
    ELSE IF mass < 800 THEN 250
    ELSE IF mass < 900 THEN 50
    ELSE IF mass < 980 THEN 100
    ELSE 300

---------------------------------------------------------------------------
(* Bounds of the model and the inputs drawn at random by the source.       *)

MaxTicks == 2

MaxClicks == 2

MaxControls == 1

ClickWindow == 2

BoxHalf == 100

(* delta of a frame, in whole units                                        *)
Deltas == {1}

(* Math.random() of handleCloudClick, in hundredths                        *)
RandDraws == {80, 81}

(* the velocity jitter of a new star, which is at most one grid step       *)
Jitters == {Vec(0, 0, 0)}

(* the texts generateStarDescription resolves to; the callback stores any  *)
(* of them the same way                                                    *)
Descriptions == {"generated"}

NumClouds == 15

NumRogue == 3

SpawnCap == 30

---------------------------------------------------------------------------
(* The universes generateUniverse may draw: the positions and masses of    *)
(* the first clouds and the positions and velocities of the rogue planets; *)
(* the remaining clouds lie on a far row.                                  *)

Layouts ==
    { [clouds |-> << [pos |-> Vec(0, 0, 0),  mass |-> 950],
                     [pos |-> Vec(3, 4, 0),  mass |-> 990],
                     [pos |-> Vec(30, 0, 0), mass |-> 400] >>,
       rogues |-> << [pos |-> Vec(0, 50, 0),   vel |-> Vec(0, 0, 0)],
                     [pos |-> Vec(-60, 0, 0),  vel |-> Vec(1, 0, 0)],
                     [pos |-> Vec(-60, 0, 20), vel |-> Vec(0, 0, 0)] >>] }

FarCloud(k) == [pos |-> Vec(-90 + 10 * k, -90, 0), mass |-> 100]

(* generateUniverse: the clouds and rogue planets it builds, with fresh    *)
(* ids from base + 1 on.                                                   *)
NewClouds(lay, base) ==
    [k \in 1..NumClouds |->
        LET c == IF k <= Len(lay.clouds) THEN lay.clouds[k] ELSE FarCloud(k)
        IN  [id |-> base + k, pos |-> c.pos, mass |-> c.mass,
             isCollapsing |-> FALSE]]

RoguePlanets(lay, base) ==
    [k \in 1..NumRogue |->
        [id |-> base + NumClouds + k, pos |-> lay.rogues[k].pos,
         vel |-> lay.rogues[k].vel, mass |-> 5, type |-> "RoguePlanet",
         radius |-> 30, age |-> 10000, consumedBy |-> NoId,
         isShredding |-> FALSE]]

InitLog == [id |-> NoId, kind |-> "init", subject |-> "Big Bang Simulado",
            content |-> "init"]

---------------------------------------------------------------------------
VARIABLES
    clouds,      \* useState<CloudData[]>
    stars,       \* useState<StarData[]>
    logs,        \* useState<LogEntry[]>, most recent first
    loading,     \* useState(false)
    timeScale,   \* useState(1)
    focusedId,   \* useState<string | null>
    isZoomMode,  \* useState(false)
    timers,      \* the pending setTimeout callbacks of handleCloudClick
    requests,    \* the generateStarDescription calls in flight
    nextId,      \* the ids uuidv4 has handed out
    ticks,       \* frames run so far
    clicks,      \* collapses started so far
    controls,    \* uses of the controls (time scale, zoom, reset, spawner)
    obs          \* what the last frame did: its dt and its loop state

vars == <<clouds, stars, logs, loading, timeScale, focusedId, isZoomMode,
          timers, requests, nextId, ticks, clicks, controls, obs>>

(* What a frame leaves in obs: its dt, the objects                         *)
(* the loop worked on when it returned (objs), the entry React replaced by *)
(* a copy, the onMerger and onMassTransfer calls, and the iterations (tr). *)
Observed(dt, st) ==
    [dt |-> dt, objs |-> st.objs, copyIdx |-> st.copyIdx,
     copy |-> st.copy, merged |-> st.merged, winner |-> st.winner,
     loser |-> st.loser, transfers |-> st.transfers, tr |-> st.tr]

NoFrame ==
    [dt |-> 0, objs |-> <<>>, copyIdx |-> 0,
     copy |-> NoStar, merged |-> FALSE, winner |-> NoId, loser |-> NoId,
     transfers |-> <<>>, tr |-> <<>>]

Init ==
    /\ \E lay \in Layouts :
         /\ clouds = NewClouds(lay, 0)
         /\ stars = RoguePlanets(lay, 0)
    /\ logs = <<InitLog>>
    /\ loading = FALSE
    /\ timeScale = 1
    /\ focusedId = NoId
    /\ isZoomMode = FALSE
    /\ timers = <<>>
    /\ requests = <<>>
    /\ nextId = NumClouds + NumRogue
    /\ ticks = 0
    /\ clicks = 0
    /\ controls = 0
    /\ obs = NoFrame

---------------------------------------------------------------------------
(* Every coordinate of every star lies within the box the arithmetic of    *)
(* the model covers.                                                       *)
InBox(ss) ==
    \A k \in 1..Len(ss) :
        ss[k].pos.nan \/
        (/\ Abs(ss[k].pos.x) <= BoxHalf
         /\ Abs(ss[k].pos.y) <= BoxHalf
         /\ Abs(ss[k].pos.z) <= BoxHalf)

(* An entry put behind the existing ones.                                  *)
C17_AppendLog(entry, prev) == Append(prev, entry)

(* setLogs(prev => [entry, ...prev])                                       *)
PrependLog(entry, prev) == <<entry>> \o prev

(* handleMerger's log entry                                                *)
MergerLog(id, w, l) ==
    [id |-> id, kind |-> "merger",
     subject |-> IF w.type \in {"BlackHole", "SupermassiveBlackHole"}
                 THEN "Singularidade Alimentada" ELSE "Fusao Estelar",
     content |-> <<w.type, l.type>>]

(* A frame that does nothing.                                              *)
C8_NeverPaused(dt) == FALSE

(* if (dt === 0) return                                                    *)
Paused(dt) == dt = 0

(* useFrame of PhysicsSystem, with the updates it queues applied.          *)
Tick ==
    /\ ticks < MaxTicks
    /\ \E delta \in Deltas :
         IF Paused(delta * timeScale)
         THEN /\ obs' = [NoFrame EXCEPT !.objs = stars]
              /\ UNCHANGED <<stars, logs, focusedId, nextId>>
         ELSE /\ InBox(stars)
              /\ \E st \in FrameOutcomes(stars, delta * timeScale) :
                   /\ stars' = Committed(st)
                   /\ obs' = Observed(delta * timeScale, st)
                   /\ IF st.merged
                      THEN /\ logs' = PrependLog(
                                        MergerLog(nextId + 1,
                                           stars[FirstIdx(stars, st.winner)],
                                           stars[FirstIdx(stars, st.loser)]),
                                        logs)
                           /\ nextId' = nextId + 1
                           /\ focusedId' = IF focusedId = st.loser
                                           THEN st.winner ELSE focusedId
                      ELSE UNCHANGED <<logs, nextId, focusedId>>
    /\ ticks' = ticks + 1
    /\ UNCHANGED <<clouds, loading, timeScale, isZoomMode, timers, requests,
                   clicks, controls>>

---------------------------------------------------------------------------
(* HydrogenCloud.handleClick followed by App.handleCloudClick, for the     *)
(* cloud at index k of the rendered clouds.                                *)

CollapseClosure(c, rand) ==
    [id |-> c.id, pos |-> c.pos, mass |-> c.mass, rand |-> rand,
     type |-> StarTypeOf(c.mass, rand), radius |-> StarRadiusOf(c.mass, rand)]

(* A handler that starts a collapse whatever the cloud's flag is.          *)
C14_Retrigger ==
    \E k \in 1..Len(clouds), rand \in RandDraws :
       /\ k <= ClickWindow
       /\ ~isZoomMode
       /\ clicks < MaxClicks
       /\ clicks' = clicks + 1
       /\ clouds' = [m \in 1..Len(clouds) |->
                       IF clouds[m].id = clouds[k].id
                       THEN [clouds[m] EXCEPT !.isCollapsing = TRUE]
                       ELSE clouds[m]]
       /\ timers' = Append(timers, CollapseClosure(clouds[k], rand))
       /\ UNCHANGED <<stars, logs, loading, timeScale, focusedId, isZoomMode,
                      requests, nextId, ticks, controls, obs>>

CloudClick ==
    \E k \in 1..Len(clouds), rand \in RandDraws :
       LET c == clouds[k]
       IN  /\ k <= ClickWindow
           /\ IF c.isCollapsing
              THEN UNCHANGED <<clouds, focusedId, isZoomMode, timers, clicks>>
              ELSE IF isZoomMode
              THEN /\ focusedId' = c.id
                   /\ isZoomMode' = FALSE
                   /\ UNCHANGED <<clouds, timers, clicks>>
              ELSE /\ clicks < MaxClicks
                   /\ clicks' = clicks + 1
                   /\ clouds' = [m \in 1..Len(clouds) |->
                                   IF clouds[m].id = c.id
                                   THEN [clouds[m] EXCEPT !.isCollapsing = TRUE]
                                   ELSE clouds[m]]
                   /\ timers' = Append(timers, CollapseClosure(c, rand))
                   /\ UNCHANGED <<focusedId, isZoomMode>>
           /\ UNCHANGED <<stars, logs, loading, timeScale, requests, nextId,
                          ticks, controls, obs>>

(* A star that is given an id of its own.                                  *)
C13_OwnId(t, vel) ==
    [id |-> t.id + 1000, pos |-> t.pos, vel |-> vel, mass |-> t.mass,
     type |-> t.type, radius |-> t.radius, age |-> 0, consumedBy |-> NoId,
     isShredding |-> FALSE]

(* The setTimeout callback of handleCloudClick up to its await: timers of  *)
(* equal delay run in the order they were set.                             *)
NewStar(t, vel) ==
    [id |-> t.id, pos |-> t.pos, vel |-> vel, mass |-> t.mass,
     type |-> t.type, radius |-> t.radius, age |-> 0, consumedBy |-> NoId,
     isShredding |-> FALSE]

CollapseTimer ==
    /\ timers # <<>>
    /\ \E vel \in Jitters :
         LET t == Head(timers)
         IN  /\ clouds' = SelectSeqNotId(clouds, t.id)
             /\ stars' = Append(stars, NewStar(t, vel))
             /\ focusedId' = t.id
             /\ loading' = TRUE
             /\ requests' = Append(requests, [type |-> t.type, mass |-> t.mass])
    /\ timers' = Tail(timers)
    /\ UNCHANGED <<logs, timeScale, isZoomMode, nextId, ticks, clicks,
                   controls, obs>>

(* generateStarDescription settles (with the model's text, or with one of  *)
(* its two fixed texts) and the callback resumes after its await.          *)
BirthLog(id, r, text) ==
    [id |-> id, kind |-> "birth", subject |-> r.type, content |-> text]

RemoveAt(q, k) == [m \in 1..(Len(q) - 1) |-> IF m < k THEN q[m] ELSE q[m + 1]]

(* A request whose failure is thrown to the callback: the callback ends at *)
(* its await and writes no log entry.                                      *)
C16_Rejects(texts) ==
    /\ \E k \in 1..Len(requests), text \in texts :
         /\ logs' = IF text = "generated"
                    THEN PrependLog(BirthLog(nextId + 1, requests[k], text),
                                    logs)
                    ELSE logs
         /\ requests' = RemoveAt(requests, k)
    /\ nextId' = nextId + 1
    /\ loading' = FALSE
    /\ UNCHANGED <<clouds, stars, timeScale, focusedId, isZoomMode, timers,
                   ticks, clicks, controls, obs>>

DescriptionSettles(texts) ==
    /\ \E k \in 1..Len(requests), text \in texts :
         /\ logs' = PrependLog(BirthLog(nextId + 1, requests[k], text), logs)
         /\ requests' = RemoveAt(requests, k)
    /\ nextId' = nextId + 1
    /\ loading' = FALSE
    /\ UNCHANGED <<clouds, stars, timeScale, focusedId, isZoomMode, timers,
                   ticks, clicks, controls, obs>>

DescriptionDone == DescriptionSettles(Descriptions)

(* The three ways generateStarDescription returns: the model's text, the   *)
(* fixed text for an empty response, the fixed text of the catch block.    *)
Settlements == {"generated", "empty response", "caught error"}

DescriptionSettled == DescriptionSettles(Settlements)

(* The buttons of the time control.                                        *)
SetTimeScale ==
    /\ controls < MaxControls
    /\ controls' = controls + 1
    /\ \E v \in TimeScales : timeScale' = v
    /\ UNCHANGED <<clouds, stars, logs, loading, focusedId, isZoomMode, timers,
                   requests, nextId, ticks, clicks, obs>>

(* The zoom tool button.                                                   *)
ToggleZoom ==
    /\ controls < MaxControls
    /\ controls' = controls + 1
    /\ isZoomMode' = ~isZoomMode
    /\ UNCHANGED <<clouds, stars, logs, loading, timeScale, focusedId, timers,
                   requests, nextId, ticks, clicks, obs>>

(* The Reiniciar button.                                                   *)
GenerateUniverse ==
    /\ controls < MaxControls
    /\ \E lay \in Layouts :
         /\ clouds' = NewClouds(lay, nextId)
         /\ stars' = RoguePlanets(lay, nextId)
    /\ nextId' = nextId + NumClouds + NumRogue
    /\ focusedId' = NoId
    /\ timeScale' = 1
    /\ logs' = <<InitLog>>
    /\ controls' = controls + 1
    /\ UNCHANGED <<loading, isZoomMode, timers, requests, ticks, clicks, obs>>

(* UniverseSpawner's frame callback when its condition holds.              *)
SpawnInputs == {[pos |-> Vec(50, 50, 0), mass |-> 300]}

SpawnCloud ==
    /\ controls < MaxControls
    /\ \E c \in SpawnInputs :
         IF Len(clouds) > SpawnCap
         THEN UNCHANGED <<clouds, nextId>>
         ELSE /\ clouds' = Append(clouds, [id |-> nextId + 1, pos |-> c.pos,
                                           mass |-> c.mass,
                                           isCollapsing |-> FALSE])
              /\ nextId' = nextId + 1
    /\ controls' = controls + 1
    /\ UNCHANGED <<stars, logs, loading, timeScale, focusedId, isZoomMode,
                   timers, requests, ticks, clicks, obs>>

(* Registries of two stars: the pair loop as a function of one pair.       *)
Kinds ==
    { [type |-> "RoguePlanet", mass |-> 5,   radius |-> 30],
      [type |-> "BrownDwarf",  mass |-> 1,   radius |-> 60],
      [type |-> "YellowDwarf", mass |-> 400, radius |-> 150],
      [type |-> "BlackHole",   mass |-> 950, radius |-> 100],
      [type |-> "Quasar",      mass |-> 990, radius |-> 300] }

Offsets ==
    { Vec(0, 0, 0), Vec(1, 0, 0), Vec(3, 4, 0), Vec(10, 0, 0), Vec(0, 0, -12),
      Vec(0, 36, 0), Vec(30, 40, 0), Vec(0, 90, 0) }

VelocitiesA == { Vec(0, 0, 0), Vec(2, 0, 0) }

VelocitiesB == { Vec(0, 0, 0), Vec(-1, 0, 1) }

Body(id, k, pos, vel) ==
    [id |-> id, pos |-> pos, vel |-> vel, mass |-> k.mass, type |-> k.type,
     radius |-> k.radius, age |-> 0, consumedBy |-> NoId,
     isShredding |-> FALSE]

PairInit ==
    /\ \E ka \in Kinds, kb \in Kinds, off \in Offsets,
          va \in VelocitiesA, vb \in VelocitiesB :
         stars = <<Body(1, ka, Vec(0, 0, 0), va), Body(2, kb, off, vb)>>
    /\ timeScale \in TimeScales
    /\ clouds = <<>>
    /\ logs = <<InitLog>>
    /\ loading = FALSE
    /\ focusedId = NoId
    /\ isZoomMode = FALSE
    /\ timers = <<>>
    /\ requests = <<>>
    /\ nextId = 2
    /\ ticks = 0
    /\ clicks = 0
    /\ controls = 0
    /\ obs = NoFrame

PairSpec == PairInit /\ [][Tick]_vars

(* The births of the universe: collapses, their description requests with  *)
(* every way they settle, and frames at each time scale.                   *)
BirthInit ==
    /\ \E lay \in Layouts :
         /\ clouds = NewClouds(lay, 0)
         /\ stars = RoguePlanets(lay, 0)
    /\ timeScale \in TimeScales
    /\ logs = <<InitLog>>
    /\ loading = FALSE
    /\ focusedId = NoId
    /\ isZoomMode = FALSE
    /\ timers = <<>>
    /\ requests = <<>>
    /\ nextId = NumClouds + NumRogue
    /\ ticks = 0
    /\ clicks = 0
    /\ controls = 0
    /\ obs = NoFrame

BirthNext ==
    \/ Tick
    \/ CloudClick
    \/ CollapseTimer
    \/ DescriptionSettled

BirthSpec ==
    /\ BirthInit /\ [][BirthNext]_vars
    /\ WF_vars(CollapseTimer) /\ WF_vars(DescriptionSettled)

(* Registries of three stars: the pair loop over several pairs, with the   *)
(* second and third body near the first or away from it, the second and    *)
(* third at rest.                                                          *)
TripleKinds == {k \in Kinds : k.type # "BrownDwarf"}

OffsetsB == { Vec(1, 0, 0), Vec(0, 50, 0) }

OffsetsC == { Vec(0, 1, 0), Vec(0, 0, -60), Vec(0, 51, 0) }

(* the first body is at rest or moves away from the second at a speed that *)
(* takes it out of a black hole's feeding zone                             *)
VelocitiesT == { Vec(0, 0, 0), Vec(0, -80, 0) }

TripleInit ==
    /\ \E ka \in TripleKinds, kb \in TripleKinds, kc \in TripleKinds,
          ob \in OffsetsB, oc \in OffsetsC, va \in VelocitiesT :
         stars = <<Body(1, ka, Vec(0, 0, 0), va),
                   Body(2, kb, ob, Vec(0, 0, 0)),
                   Body(3, kc, oc, Vec(0, 0, 0))>>
    /\ timeScale \in TimeScales
    /\ clouds = <<>>
    /\ logs = <<InitLog>>
    /\ loading = FALSE
    /\ focusedId = NoId
    /\ isZoomMode = FALSE
    /\ timers = <<>>
    /\ requests = <<>>
    /\ nextId = 3
    /\ ticks = 0
    /\ clicks = 0
    /\ controls = 0
    /\ obs = NoFrame

TripleSpec == TripleInit /\ [][Tick]_vars

(* The universe after the spawner has added n clouds to it: the registry   *)
(* near its population cap.                                                *)
SpawnedClouds(n, base) ==
    [k \in 1..n |->
        [id |-> base + k, pos |-> Vec(50, 50, 0), mass |-> 300,
         isCollapsing |-> FALSE]]

SpawnInit ==
    /\ \E lay \in Layouts, n \in 0..(SpawnCap - NumClouds) :
         /\ clouds = NewClouds(lay, 0)
                        \o SpawnedClouds(n, NumClouds + NumRogue)
         /\ stars = RoguePlanets(lay, 0)
         /\ nextId = NumClouds + NumRogue + n
    /\ logs = <<InitLog>>
    /\ loading = FALSE
    /\ timeScale = 1
    /\ focusedId = NoId
    /\ isZoomMode = FALSE
    /\ timers = <<>>
    /\ requests = <<>>
    /\ ticks = 0
    /\ clicks = 0
    /\ controls = 0
    /\ obs = NoFrame

SpawnNext == SpawnCloud \/ CloudClick \/ CollapseTimer \/ GenerateUniverse

SpawnSpec == SpawnInit /\ [][SpawnNext]_vars

(* Registries of two stars under the frame callback and the universe       *)
(* reset: the ways a star leaves the registry.                             *)
FeedNext == Tick \/ GenerateUniverse

FeedSpec == PairInit /\ [][FeedNext]_vars

(* Registries of one cloud: the classification as a function of the        *)
(* cloud's mass and the draw.                                              *)
MassDraws ==
    {50 * k : k \in 0..19} \cup {149, 299, 599, 799, 899, 979, 999}

CloudInit ==
    /\ \E m \in MassDraws :
         clouds = <<[id |-> 1, pos |-> Vec(0, 0, 0), mass |-> m,
                     isCollapsing |-> FALSE]>>
    /\ stars = <<>>
    /\ timeScale = 1
    /\ logs = <<InitLog>>
    /\ loading = FALSE
    /\ focusedId = NoId
    /\ isZoomMode = FALSE
    /\ timers = <<>>
    /\ requests = <<>>
    /\ nextId = 1
    /\ ticks = 0
    /\ clicks = 0
    /\ controls = 0
    /\ obs = NoFrame

CloudNext == CloudClick \/ CollapseTimer

CloudSpec == CloudInit /\ [][CloudNext]_vars

Next ==
    \/ Tick
    \/ CloudClick
    \/ CollapseTimer
    \/ DescriptionDone
    \/ SetTimeScale
    \/ ToggleZoom
    \/ GenerateUniverse
    \/ SpawnCloud

Spec == Init /\ [][Next]_vars

(* The event loop runs every timer callback that is due and resumes every  *)
(* callback whose awaited promise has settled.                             *)
FairSpec == Spec /\ WF_vars(CollapseTimer) /\ WF_vars(DescriptionDone)
---------------------------------------------------------------------------
(* The iterations of the last frame, and the bodies of an iteration e by   *)
(* role: before the merge or feed step (after gravity and damping) and     *)
(* after it.                                                               *)

Iterations == {obs.tr[k].e : k \in 1..Len(obs.tr)}

WinnerBefore(e) == IF e.winB THEN e.b2 ELSE e.a2

LoserBefore(e) == IF e.winB THEN e.a2 ELSE e.b2

WinnerAfter(e) == IF e.winB THEN e.b3 ELSE e.a3

LoserAfter(e) == IF e.winB THEN e.a3 ELSE e.b3

(* v is the grid value nearest to (mw * vw + ml * vl) / (mw + ml)          *)
IsWeightedMean(v, mw, vw, ml, vl) ==
    2 * Abs((mw + ml) * v - (mw * vw + ml * vl)) <= mw + ml

(* C1: whenever a frame resolves a merge, the winner's mass after the      *)
(* merge step is the sum of the two masses before it, and each component   *)
(* of its velocity is the mass-weighted mean of the two velocities before  *)
(* the step (NaN when one of them is NaN), as the grid stores it.          *)
C1_MergeConserves ==
    \A e \in Iterations :
        e.merged =>
            /\ WinnerAfter(e).mass = WinnerBefore(e).mass + LoserBefore(e).mass
            /\ WinnerAfter(e).vel.nan =
                   (WinnerBefore(e).vel.nan \/ LoserBefore(e).vel.nan)
            /\ ~WinnerAfter(e).vel.nan =>
                   /\ IsWeightedMean(WinnerAfter(e).vel.x,
                          WinnerBefore(e).mass, WinnerBefore(e).vel.x,
                          LoserBefore(e).mass, LoserBefore(e).vel.x)
                   /\ IsWeightedMean(WinnerAfter(e).vel.y,
                          WinnerBefore(e).mass, WinnerBefore(e).vel.y,
                          LoserBefore(e).mass, LoserBefore(e).vel.y)
                   /\ IsWeightedMean(WinnerAfter(e).vel.z,
                          WinnerBefore(e).mass, WinnerBefore(e).vel.z,
                          LoserBefore(e).mass, LoserBefore(e).vel.z)

(* C1 witness: a frame has merged two bodies of different masses that      *)
(* moved at different velocities, and the winner's velocity changed.       *)
C1_Witness ==
    \E e \in Iterations :
        /\ e.merged
        /\ ~WinnerBefore(e).vel.nan /\ ~LoserBefore(e).vel.nan
        /\ WinnerBefore(e).mass # LoserBefore(e).mass
        /\ WinnerBefore(e).vel # LoserBefore(e).vel
        /\ WinnerAfter(e).vel # WinnerBefore(e).vel

Ids(ss) == {ss[k].id : k \in 1..Len(ss)}

(* C2: a frame that resolves a merge leaves, once its merger event is      *)
(* applied, a registry that holds the winner under the id it had, does not *)
(* hold the loser, and has one star fewer than before the frame.           *)
C2_MergerApplied ==
    [][(ticks' = ticks + 1 /\ obs'.merged) =>
          /\ obs'.winner \in Ids(stars) /\ obs'.winner \in Ids(stars')
          /\ obs'.loser \in Ids(stars) /\ obs'.loser \notin Ids(stars')
          /\ Len(stars') = Len(stars) - 1
          /\ Ids(stars') = Ids(stars) \ {obs'.loser}]_vars

(* C2 witness: the last frame merged a pair and the registry now holds the *)
(* winner and not the loser, one star fewer than the frame iterated.       *)
C2_Witness ==
    /\ obs.merged
    /\ obs.winner \in Ids(stars)
    /\ obs.loser \notin Ids(stars)
    /\ obs.loser \in Ids(obs.objs)
    /\ Len(stars) = Len(obs.objs) - 1

MassOf(ss, id) == ss[FirstIdx(ss, id)].mass

(* the onMassTransfer calls of frame o that name id as source, as target   *)
NumFrom(o, id) ==
    Cardinality({k \in 1..Len(o.transfers) : o.transfers[k].source = id})

NumTo(o, id) ==
    Cardinality({k \in 1..Len(o.transfers) : o.transfers[k].target = id})

(* C3: a frame in which a pair feeds (feed zone, compact predator, prey    *)
(* mass above 0.1) leaves, once its events are applied, the prey's mass    *)
(* lower by 0.1 * dt and the predator's mass higher by 0.1 * dt, for each  *)
(* transfer the frame emitted for them.                                    *)
C3_FeedTransfersMass ==
    [][(ticks' = ticks + 1) =>
          \A k \in 1..Len(obs'.transfers) :
             (/\ obs'.transfers[k].source \in Ids(stars')
              /\ obs'.transfers[k].target \in Ids(stars')
              /\ ~obs'.merged) =>
                /\ MassOf(stars', obs'.transfers[k].source) =
                      MassOf(stars, obs'.transfers[k].source)
                        - obs'.dt * NumFrom(obs', obs'.transfers[k].source)
                /\ MassOf(stars', obs'.transfers[k].target) =
                      MassOf(stars, obs'.transfers[k].target)
                        + obs'.dt * NumTo(obs', obs'.transfers[k].target)]_vars

(* C4: every star's consumedBy is none or the id of a registered star.     *)
C4_ConsumedByRegistered ==
    \A k \in 1..Len(stars) :
        stars[k].consumedBy = NoId \/ stars[k].consumedBy \in Ids(stars)

(* The predator rule as stated: a single compact body wins; otherwise the  *)
(* strictly more massive body wins, the first in order on equal masses.    *)
StatedWinnerIsB(a, b) ==
    IF IsBH(a) # IsBH(b) THEN IsBH(b) ELSE b.mass > a.mass

(* C5: in every iteration of a frame the winner is the body the stated     *)
(* predator rule names.                                                    *)
C5_PredatorRule ==
    \A e \in Iterations : e.winB = StatedWinnerIsB(e.a0, e.b0)

(* The zones of a pair, and the winner's id.                               *)
Zones(a, b) == <<InCapture(a, b), InFeed(a, b), InMerge(a, b)>>

WinnerId(a, b) == IF WinnerIsB(a, b) THEN b.id ELSE a.id

(* C6 as stated: no star is paired with itself, and the zones and the      *)
(* winner of every pair are the same in both orders of the pair.           *)
C6_SymmetricPairs ==
    /\ \A k \in 1..Len(obs.tr) : obs.tr[k].i # obs.tr[k].j
    /\ \A e \in Iterations :
          /\ e.a0.id # e.b0.id
          /\ Zones(e.a0, e.b0) = Zones(e.b0, e.a0)
          /\ WinnerId(e.a0, e.b0) = WinnerId(e.b0, e.a0)

(* C6 amended: no star is paired with itself and the zones of a pair are   *)
(* the same in both orders; the winner is the same in both orders when     *)
(* exactly one body is compact, or when neither is and the masses differ;  *)
(* otherwise the first body of the pair wins in either order.              *)
C6_SymmetricZones ==
    /\ \A k \in 1..Len(obs.tr) : obs.tr[k].i < obs.tr[k].j
    /\ \A e \in Iterations :
          /\ e.a0.id # e.b0.id
          /\ Zones(e.a0, e.b0) = Zones(e.b0, e.a0)
          /\ IF IsBH(e.a0) # IsBH(e.b0)
                \/ (~IsBH(e.a0) /\ ~IsBH(e.b0) /\ e.a0.mass # e.b0.mass)
             THEN WinnerId(e.a0, e.b0) = WinnerId(e.b0, e.a0)
             ELSE /\ WinnerId(e.a0, e.b0) = e.a0.id
                  /\ WinnerId(e.b0, e.a0) = e.b0.id

(* C6 witness: a frame has evaluated a pair in the feed zone whose second  *)
(* body is the compact one and wins, and a pair in the capture zone.       *)
C6_Witness ==
    /\ \E e \in Iterations :
          InFeed(e.a0, e.b0) /\ IsBH(e.b0) /\ ~IsBH(e.a0) /\ e.winB
    /\ \E e \in Iterations : InCapture(e.a0, e.b0)

(* The exact impulses of the gravity step of iteration e.                  *)
ImpulseA(e) ==
    RVScale(GravityDvA(e.a0, ForceVec(e.a0, e.b0), obs.dt), Mass(e.a0.mass))

ImpulseB(e) ==
    RVScale(GravityDvB(e.b0, ForceVec(e.a0, e.b0), obs.dt), Mass(e.b0.mass))

(* C7: for every pair at non-zero distance the force is G*mA*mB/(r^2 + S)  *)
(* with G = 0.5 and S = 2.0, mA * dvA = -(mB * dvB) in every component,    *)
(* and dvA, dvB are what the gravity step adds to the stored velocities.   *)
C7_EqualOpposite ==
    \A e \in Iterations :
        (~e.a0.pos.nan /\ ~e.b0.pos.nan /\ e.a0.pos # e.b0.pos) =>
            /\ Force(e.a0, e.b0) =
                  R(e.a0.mass * e.b0.mass,
                    2 * (DistSqG(Delta(e.a0, e.b0)) + 200))
            /\ ~ImpulseA(e).nan /\ ~ImpulseB(e).nan
            /\ ImpulseA(e).x = RNeg(ImpulseB(e).x)
            /\ ImpulseA(e).y = RNeg(ImpulseB(e).y)
            /\ ImpulseA(e).z = RNeg(ImpulseB(e).z)
            /\ ~e.damped =>
                  /\ e.a2.vel = Bump(e.a0.vel,
                        GravityDvA(e.a0, ForceVec(e.a0, e.b0), obs.dt))
                  /\ e.b2.vel = Bump(e.b0.vel,
                        GravityDvB(e.b0, ForceVec(e.a0, e.b0), obs.dt))

(* C7 witness: a frame has evaluated a pair at non-zero distance whose     *)
(* gravity step changed both stored velocities.                            *)
C7_Witness ==
    \E e \in Iterations :
        /\ ~e.a0.pos.nan /\ ~e.b0.pos.nan /\ e.a0.pos # e.b0.pos
        /\ ~e.damped
        /\ e.a2.vel # e.a0.vel /\ e.b2.vel # e.b0.vel
        /\ e.a0.mass # e.b0.mass

(* C8: a frame run while timeScale = 0 leaves the registry of stars as it  *)
(* was and emits no merger and no mass transfer.                           *)
C8_PausedFrame ==
    [][(ticks' = ticks + 1 /\ timeScale = 0) =>
          /\ stars' = stars
          /\ logs' = logs
          /\ ~obs'.merged
          /\ obs'.transfers = <<>>]_vars

(* C8 witness: two frames have run, the last one while timeScale = 0 over  *)
(* a registry that holds a pair in the merge zone and a pair in the feed   *)
(* zone.                                                                   *)
C8_Witness ==
    /\ ticks = 2 /\ timeScale = 0 /\ obs.dt = 0 /\ obs.objs = stars
    /\ \E i \in 1..Len(stars), j \in 1..Len(stars) :
          i < j /\ InMerge(stars[i], stars[j])
    /\ \E i \in 1..Len(stars), j \in 1..Len(stars) :
          i < j /\ InFeed(stars[i], stars[j]) /\ stars[i].mass > 1

(* C9: no two entries of the registry, clouds and stars together, have the *)
(* same id.                                                                *)
C9_UniqueIds ==
    /\ \A i \in 1..Len(clouds), j \in 1..Len(clouds) :
          clouds[i].id = clouds[j].id => i = j
    /\ \A i \in 1..Len(stars), j \in 1..Len(stars) :
          stars[i].id = stars[j].id => i = j
    /\ Ids(clouds) \cap Ids(stars) = {}

(* C9 witness: a collapse has completed (a star carries the id a cloud     *)
(* had) while another cloud is collapsing.                                 *)
C9_Witness ==
    /\ \E k \in 1..Len(stars) : stars[k].type # "RoguePlanet"
    /\ \E k \in 1..Len(clouds) : clouds[k].isCollapsing

(* The archetype as stated, for a mass in tenths and a draw in hundredths. *)
StatedType(mass, draw) ==
    CASE mass < 150 -> "BrownDwarf"
      [] 150 <= mass /\ mass < 300 -> "RedDwarf"
      [] 300 <= mass /\ mass < 600 /\ draw > 80 -> "BinaryStar"
      [] 300 <= mass /\ mass < 600 /\ draw <= 80 -> "YellowDwarf"
      [] 600 <= mass /\ mass < 800 -> "BlueGiant"
      [] 800 <= mass /\ mass < 900 -> "NeutronStar"
      [] 900 <= mass /\ mass < 980 -> "BlackHole"
      [] mass >= 980 -> "Quasar"

(* C10: the archetype a triggered collapse has chosen is the stated        *)
(* function of the cloud's mass and the draw, and outside the 30-60 band   *)
(* no draw changes it.                                                     *)
C10_Classification ==
    \A k \in 1..Len(timers) :
        /\ timers[k].type = StatedType(timers[k].mass, timers[k].rand)
        /\ (timers[k].mass < 300 \/ timers[k].mass >= 600) =>
              \A d \in RandDraws :
                 StarTypeOf(timers[k].mass, d) = timers[k].type

(* C10 witness: collapses of clouds at both ends of the 30-60 band have    *)
(* been triggered with a draw above 0.8.                                   *)
C10_Witness ==
    \E k \in 1..Len(timers) :
        /\ timers[k].mass \in {300, 599}
        /\ timers[k].rand > 80
        /\ timers[k].type = "BinaryStar"

(* the predator of the last feeding iteration of frame o on the prey id    *)
LastPredator(o, id) ==
    o.transfers[CHOOSE k \in 1..Len(o.transfers) :
                    /\ o.transfers[k].source = id
                    /\ \A m \in (k + 1)..Len(o.transfers) :
                          o.transfers[m].source # id].target

(* C11: after a frame in which a pair fed (feed zone, compact predator,    *)
(* prey mass above 0.1), the prey's entry in the registry has isShredding  *)
(* set and its consumedBy is the id of the predator of the last feeding    *)
(* pair of that frame on that prey.                                        *)
C11_FeedFlags ==
    \A k \in 1..Len(obs.transfers) :
        obs.transfers[k].source \in Ids(stars) =>
            /\ stars[FirstIdx(stars, obs.transfers[k].source)].isShredding
            /\ stars[FirstIdx(stars, obs.transfers[k].source)].consumedBy =
                  LastPredator(obs, obs.transfers[k].source)

AgeOf(ss, id) == ss[FirstIdx(ss, id)].age

(* C12: a frame with dt > 0 leaves every registered star 10 * dt older     *)
(* than it was, also when the frame resolves a merge; a frame with         *)
(* dt <= 0 leaves every age as it was; and no step of the program lowers   *)
(* the age of a star.                                                      *)
C12_AgeAccrues ==
    [][/\ (ticks' = ticks + 1) =>
             \A k \in 1..Len(stars') :
                 /\ stars'[k].id \in Ids(stars)
                 /\ stars'[k].age =
                       AgeOf(stars, stars'[k].id)
                         + (IF obs'.dt > 0 THEN 10 * obs'.dt ELSE 0)
       /\ \A k \in 1..Len(stars), m \in 1..Len(stars') :
             stars[k].id = stars'[m].id => stars'[m].age >= stars[k].age]_vars

(* C12 witness: a forward frame has resolved a merge and a rewinding frame *)
(* has followed it; the winner, born at age 0, still has the age the       *)
(* forward frame gave it.                                                  *)
C12_Witness ==
    /\ ticks = 2 /\ obs.dt < 0
    /\ \E k \in 1..Len(logs) : logs[k].kind = "merger"
    /\ \E k \in 1..Len(stars) :
          stars[k].type = "BlackHole" /\ stars[k].age = 10

(* the ids uuidv4 can hand out within the bounds                           *)
IdSpace ==
    1..((MaxControls + 1) * (NumClouds + NumRogue) + MaxClicks + MaxTicks)

Collapsing(id) ==
    \E k \in 1..Len(clouds) : clouds[k].id = id /\ clouds[k].isCollapsing

(* C13: every cloud that is collapsing is eventually followed by a star of *)
(* its id in the registry, whatever the time scale is meanwhile; and the   *)
(* step that completes the collapse of a cloud removes the cloud and       *)
(* appends a star with the cloud's id, mass and position, age 0,           *)
(* consumedBy none and isShredding false.                                  *)
C13_CollapseCompletes ==
    /\ \A id \in IdSpace : Collapsing(id) ~> (id \in Ids(stars))
    /\ [][\A k \in 1..Len(clouds) :
             (clouds[k].isCollapsing /\ clouds[k].id \notin Ids(clouds')) =>
                 \/ Ids(clouds') \cap Ids(clouds) = {}
                 \/ /\ Len(stars') = Len(stars) + 1
                    /\ Len(clouds') = Len(clouds) - 1
                    /\ stars'[Len(stars')].id = clouds[k].id
                    /\ stars'[Len(stars')].mass = clouds[k].mass
                    /\ stars'[Len(stars')].pos = clouds[k].pos
                    /\ stars'[Len(stars')].age = 0
                    /\ stars'[Len(stars')].consumedBy = NoId
                    /\ ~stars'[Len(stars')].isShredding]_vars

(* C13 witness: a collapse has completed while the simulation is paused or *)
(* rewinding, after a frame has run at that time scale.                    *)
C13_Witness ==
    /\ timeScale <= 0 /\ ticks > 0 /\ obs.dt = timeScale
    /\ \E k \in 1..Len(stars) :
          /\ stars[k].type # "RoguePlanet"
          /\ stars[k].id \notin Ids(obs.objs)
          /\ stars[k].id \notin Ids(clouds)
          /\ stars[k].age = 0

CloudOf(cs, id) == cs[FirstIdx(cs, id)]

(* What every step keeps of the clouds: a cloud that stays in the registry *)
(* keeps its id, position and mass and, once collapsing, stays collapsing; *)
(* a collapse is started only for a cloud of the registry that was not     *)
(* collapsing; no two pending collapses are of the same cloud and none is  *)
(* of a cloud that has yielded its star; a star comes out of a collapse    *)
(* only by ending the oldest pending collapse.                             *)
CloudStepRules ==
    /\ \A id \in Ids(clouds) \cap Ids(clouds') :
          /\ CloudOf(clouds', id).pos = CloudOf(clouds, id).pos
          /\ CloudOf(clouds', id).mass = CloudOf(clouds, id).mass
          /\ CloudOf(clouds, id).isCollapsing =>
                CloudOf(clouds', id).isCollapsing
          /\ (~CloudOf(clouds, id).isCollapsing
                 /\ CloudOf(clouds', id).isCollapsing) =>
                /\ timers' = Append(timers, timers'[Len(timers')])
                /\ timers'[Len(timers')].id = id
    /\ Len(timers') > Len(timers) =>
          /\ Len(timers') = Len(timers) + 1
          /\ timers'[Len(timers')].id \in Ids(clouds)
          /\ ~CloudOf(clouds, timers'[Len(timers')].id).isCollapsing
          /\ CloudOf(clouds', timers'[Len(timers')].id).isCollapsing
    /\ \A i \in 1..Len(timers'), j \in 1..Len(timers') :
          timers'[i].id = timers'[j].id => i = j
    /\ \A i \in 1..Len(timers') : timers'[i].id \notin Ids(stars')
    /\ Len(timers') < Len(timers) =>
          /\ timers' = Tail(timers)
          /\ stars' = Append(stars, stars'[Len(stars')])
          /\ stars'[Len(stars')].id = Head(timers).id

(* a cloud that leaves the registry was collapsing and its star is         *)
(* appended in the same step                                               *)
LeavesByCollapse(id) ==
    /\ CloudOf(clouds, id).isCollapsing
    /\ Len(stars') = Len(stars) + 1
    /\ stars'[Len(stars')].id = id

(* all clouds are replaced by clouds that are not collapsing               *)
LeavesByReset ==
    /\ Ids(clouds') \cap Ids(clouds) = {}
    /\ \A k \in 1..Len(clouds') : ~clouds'[k].isCollapsing

(* C14 as stated: the step rules of the clouds hold, and a cloud leaves    *)
(* the registry only from Collapsing, when its collapse completes.         *)
C14_LifecycleExact ==
    [][/\ CloudStepRules
       /\ \A id \in Ids(clouds) \ Ids(clouds') : LeavesByCollapse(id)]_vars

(* C14 amended: the step rules of the clouds hold, and a cloud leaves the  *)
(* registry either from Collapsing, when its collapse completes, or from   *)
(* any state when the universe is reset.                                   *)
C14_Lifecycle ==
    [][/\ CloudStepRules
       /\ \A id \in Ids(clouds) \ Ids(clouds') :
             LeavesByCollapse(id) \/ LeavesByReset]_vars

(* C14 witness: a cloud of the present universe is collapsing while the    *)
(* star of a cloud that a reset discarded during its collapse is in the    *)
(* registry.                                                               *)
C14_Witness ==
    /\ \E k \in 1..Len(clouds) : clouds[k].isCollapsing
    /\ \E k \in 1..Len(stars) :
          /\ stars[k].type # "RoguePlanet"
          /\ \A m \in 1..Len(clouds) : stars[k].id < clouds[m].id
          /\ \E m \in 1..Len(stars) :
                stars[m].type = "RoguePlanet" /\ stars[k].id < stars[m].id

(* C15: the registry never holds more than 30 clouds.                      *)
C15_CloudCap == Len(clouds) <= 30

BirthCount(lg) == Cardinality({k \in 1..Len(lg) : lg[k].kind = "birth"})

(* What every step keeps of the description requests: a request starts in  *)
(* the step that appends its star and writes no log entry; a request ends  *)
(* by putting exactly one birth entry of its star's type, with one of the  *)
(* three texts, in front of the log and changes no star; no other step     *)
(* changes the requests or adds a birth entry; and the births logged and   *)
(* the requests in flight together are as many as the collapses completed. *)
RequestStepRules ==
    /\ Len(requests') > Len(requests) =>
          /\ requests' = Append(requests, requests'[Len(requests')])
          /\ stars' = Append(stars, stars'[Len(stars')])
          /\ stars'[Len(stars')].type = requests'[Len(requests')].type
          /\ stars'[Len(stars')].mass = requests'[Len(requests')].mass
          /\ logs' = logs
    /\ Len(requests') < Len(requests) =>
          /\ \E k \in 1..Len(requests) :
                /\ requests' = RemoveAt(requests, k)
                /\ logs'[1].subject = requests[k].type
          /\ logs'[1].kind = "birth"
          /\ logs'[1].content \in Settlements
          /\ Tail(logs') = logs
          /\ stars' = stars
    /\ Len(requests') = Len(requests) =>
          /\ requests' = requests
          /\ BirthCount(logs') = BirthCount(logs)
    /\ BirthCount(logs') + Len(requests') = clicks' - Len(timers')

(* C16: every description request in flight is eventually settled,         *)
(* whatever the time scale (0 included), and every step keeps the rules of *)
(* the requests, so that each completed collapse has its star in the       *)
(* registry before its request settles and gets exactly one birth entry,   *)
(* whichever way the request settles.                                      *)
C16_NarrativeNeverBlocks ==
    /\ (requests # <<>>) ~> (requests = <<>>)
    /\ [][RequestStepRules]_vars

(* C16 witness: a forward frame has run over two stars born of collapses   *)
(* while the request of one of them was in flight (it still is), and the   *)
(* request of the other has settled with the text of the catch block.      *)
C16_Witness ==
    /\ obs.dt > 0
    /\ Cardinality({k \in 1..Len(obs.objs) :
                       obs.objs[k].type # "RoguePlanet"}) = 2
    /\ Len(requests) = 1
    /\ \E k \in 1..Len(logs) :
          logs[k].kind = "birth" /\ logs[k].content = "caught error"

(* What every step that is not a reset does to the log: it leaves it as it *)
(* is or puts exactly one merger or birth entry in front of it; a frame    *)
(* that resolves a merge adds a merger entry, a description that settles   *)
(* adds a birth entry, and nothing else adds an entry.                     *)
LogStepRules ==
    /\ \/ logs' = logs
       \/ /\ Tail(logs') = logs
          /\ logs'[1].kind \in {"merger", "birth"}
    /\ (ticks' = ticks + 1 /\ obs'.merged) =>
          Tail(logs') = logs /\ logs'[1].kind = "merger"
    /\ Len(requests') < Len(requests) =>
          Tail(logs') = logs /\ logs'[1].kind = "birth"
    /\ (~(ticks' = ticks + 1 /\ obs'.merged)
          /\ ~(Len(requests') < Len(requests))) => logs' = logs

(* a universe reset: all clouds are new and the log is the initial entry   *)
ResetStep ==
    /\ Ids(clouds') \cap Ids(clouds) = {}
    /\ Len(clouds') = NumClouds
    /\ logs' = <<InitLog>>

(* C17 as stated: every step, a universe reset included, keeps the rules   *)
(* of the log.                                                             *)
C17_AppendOnlyAlways == [][LogStepRules]_vars

(* C17 amended: every step keeps the rules of the log, except a universe   *)
(* reset, which replaces the log by the single initial entry.              *)
C17_AppendOnly == [][LogStepRules \/ ResetStep]_vars

(* C17 witness: the log holds a merger entry and a birth entry in front of *)
(* the initial entry, the most recent first.                               *)
C17_Witness ==
    /\ Len(logs) >= 3
    /\ logs[Len(logs)] = InitLog
    /\ \E i \in 1..Len(logs), j \in 1..Len(logs) :
          /\ logs[i].kind = "merger" /\ logs[j].kind = "birth"
          /\ logs[i].id # logs[j].id
          /\ (i < j) = (logs[i].id > logs[j].id)

Cube(x) == x * x * x

(* the sum of the cubes of the two radii before the merge step of e        *)
CubeSum(e) == Cube(WinnerBefore(e).radius) + Cube(LoserBefore(e).radius)

(* C18: whenever a frame resolves a merge, the winner's radius after the   *)
(* merge step is the cube root of the sum of the cubes of the two radii    *)
(* before it, to within one step of the grid the radius is stored on; that *)
(* sum is strictly above the cube of either radius and strictly below the  *)
(* cube of their sum, so the merged radius is not below either radius and  *)
(* is strictly below their sum.                                            *)
C18_MergeRadius ==
    \A e \in Iterations :
        e.merged =>
            /\ Cube(WinnerAfter(e).radius - 1) < CubeSum(e)
            /\ CubeSum(e) < Cube(WinnerAfter(e).radius + 1)
            /\ CubeSum(e) > Cube(WinnerBefore(e).radius)
            /\ CubeSum(e) > Cube(LoserBefore(e).radius)
            /\ CubeSum(e) < Cube(WinnerBefore(e).radius
                                   + LoserBefore(e).radius)
            /\ WinnerAfter(e).radius >= WinnerBefore(e).radius
            /\ WinnerAfter(e).radius >= LoserBefore(e).radius
            /\ WinnerAfter(e).radius
                  < WinnerBefore(e).radius + LoserBefore(e).radius

(* C18 witness: a frame has merged two bodies of different radii and the   *)
(* winner's radius is now above both.                                      *)
C18_Witness ==
    \E e \in Iterations :
        /\ e.merged
        /\ WinnerBefore(e).radius # LoserBefore(e).radius
        /\ WinnerAfter(e).radius > WinnerBefore(e).radius
        /\ WinnerAfter(e).radius > LoserBefore(e).radius

(* the place, in the order of evaluation, of the first pair of ss whose    *)
(* distance is below its merge threshold, or 0 when there is none          *)
FirstMergeIdx(ss) ==
    LET ps == Pairs(Len(ss))
        in == {k \in 1..Len(ps) : InMerge(ss[ps[k][1]], ss[ps[k][2]])}
    IN  IF in = {} THEN 0
        ELSE CHOOSE k \in in : \A m \in in : k <= m

(* C19: a frame with dt # 0 evaluates the pairs in registry order (i < j,  *)
(* outer index first) up to and including the first pair whose distance is *)
(* below its merge threshold, merges that pair and evaluates no pair after *)
(* it; it merges no other pair, emits one merger event if it merged and    *)
(* none otherwise, and feeds only pairs it evaluated before the merge.     *)
C19_OneMergePerTick ==
    [][(ticks' = ticks + 1 /\ obs'.dt # 0) =>
          /\ \A k \in 1..Len(obs'.tr) :
                /\ k <= Len(Pairs(Len(stars)))
                /\ <<obs'.tr[k].i, obs'.tr[k].j>> = Pairs(Len(stars))[k]
                /\ obs'.tr[k].e.merged = (k = FirstMergeIdx(stars))
          /\ Len(obs'.tr) = IF FirstMergeIdx(stars) = 0
                             THEN Len(Pairs(Len(stars)))
                             ELSE FirstMergeIdx(stars)
          /\ obs'.merged = (FirstMergeIdx(stars) # 0)
          /\ Len(logs') = Len(logs) + (IF obs'.merged THEN 1 ELSE 0)
          /\ Len(stars') = Len(stars) - (IF obs'.merged THEN 1 ELSE 0)
          /\ Len(obs'.transfers) =
                Cardinality({k \in 1..Len(obs'.tr) : obs'.tr[k].e.fed})]_vars

(* C19 witness: the last frame merged the first pair of a registry of      *)
(* three stars and evaluated no other pair, although the second and third  *)
(* star are within their merge threshold too.                              *)
C19_Witness ==
    /\ obs.merged
    /\ Len(obs.objs) = 3 /\ Len(obs.tr) = 1
    /\ obs.tr[1].i = 1 /\ obs.tr[1].j = 2
    /\ InMerge(obs.objs[2], obs.objs[3])
    /\ Len(stars) = 2

(* v is the grid value nearest to (1 - 0.05 * dt) * u                      *)
IsDragged(v, u, dt) == Abs(20 * v - (20 - dt) * u) <= 10

(* the velocity of the prey relative to the predator, before and after the *)
(* feeding step of e                                                       *)
PreyRelBefore(e) == VSub(LoserBefore(e).vel, WinnerBefore(e).vel)

PreyRelAfter(e) == VSub(LoserAfter(e).vel, WinnerAfter(e).vel)

(* C20: in every feeding iteration of a frame with dt > 0 the feeding step *)
(* leaves the predator's velocity as it was and leaves the velocity of the *)
(* prey relative to the predator at (1 - 0.05 * dt) times what it was, as  *)
(* the grid stores it, whichever of the two bodies comes first.            *)
C20_SpiralDrag ==
    \A e \in Iterations :
        (e.fed /\ obs.dt > 0 /\ ~PreyRelBefore(e).nan) =>
            /\ WinnerAfter(e).vel = WinnerBefore(e).vel
            /\ ~PreyRelAfter(e).nan
            /\ IsDragged(PreyRelAfter(e).x, PreyRelBefore(e).x, obs.dt)
            /\ IsDragged(PreyRelAfter(e).y, PreyRelBefore(e).y, obs.dt)
            /\ IsDragged(PreyRelAfter(e).z, PreyRelBefore(e).z, obs.dt)

(* the sum of the two radii of iteration e, in hundredths, and the square  *)
(* of the distance of its bodies, in hundredths                            *)
RadiusSum(e) == e.a0.radius + e.b0.radius

SqDistance(e) == DistSqG(Delta(e.a0, e.b0))

(* mergeThreshold <= dist, for mergeThreshold = 0.4 * (rA + rB)            *)
AtOrBeyondMerge(e) == 625 * SqDistance(e) >= RadiusSum(e) * RadiusSum(e)

(* dist < captureRadius, for captureRadius = 6 * (rA + rB)                 *)
WithinCapture(e) == 25 * SqDistance(e) < 9 * RadiusSum(e) * RadiusSum(e)

(* C21: every iteration of a frame applies the capture damping exactly     *)
(* when mergeThreshold <= dist < captureRadius, with mergeThreshold =      *)
(* 0.4 * (rA + rB) and captureRadius = 6 * (rA + rB), whatever the types   *)
(* of the two bodies; a pair at exactly mergeThreshold is damped, a pair   *)
(* below it or at captureRadius or beyond is not.                          *)
C21_CaptureZone ==
    \A e \in Iterations :
        (~e.a0.pos.nan /\ ~e.b0.pos.nan) =>
            e.damped = (AtOrBeyondMerge(e) /\ WithinCapture(e))

(* the bodies of iteration e between its gravity step and its damping step *)
BeforeDamping(e) == AfterGravity(e.a0, e.b0, obs.dt)

(* the stated damping rate: 0.1 when the bodies separate, 0.005 otherwise  *)
StatedRate(u, e) ==
    IF VDot(u, Delta(e.a0, e.b0)) > 0 THEN R(1, 10) ELSE R(5, 1000)

(* w is (1 - k * dt) * u to within one step of the grid, k in thousandths  *)
IsDamped(w, u, k, dt) == Abs(1000 * w - (1000 - k * dt) * u) <= 1000

(* the damping step of e as stated, for the bodies g it starts from and    *)
(* their relative velocity u: each body's stored velocity is its velocity  *)
(* plus (A) or minus (B) u * k * dt times the other body's share of the    *)
(* total mass; the relative velocity becomes (1 - k * dt) * u; the body    *)
(* that is heavier changes no more than the other; and                     *)
(* mA * vA + mB * vB changes by no more than the rounding of the two       *)
(* stored velocities.                                                      *)
DampedAsStated(e, g, u, f) ==
    /\ e.a2.vel = Bump(g.a.vel, RVScale(Exact(u),
                      RMul(f, R(g.b.mass, g.a.mass + g.b.mass))))
    /\ e.b2.vel = Bump(g.b.vel, RVScale(Exact(u),
                      RNeg(RMul(f, R(g.a.mass, g.a.mass + g.b.mass)))))
    /\ \A c \in {"x", "y", "z"} :
          /\ IsDamped(e.b2.vel[c] - e.a2.vel[c], u[c],
                      IF VDot(u, Delta(e.a0, e.b0)) > 0 THEN 100 ELSE 5,
                      obs.dt)
          /\ g.a.mass >= g.b.mass =>
                Abs(e.a2.vel[c] - g.a.vel[c]) <= Abs(e.b2.vel[c] - g.b.vel[c])
          /\ g.a.mass <= g.b.mass =>
                Abs(e.a2.vel[c] - g.a.vel[c]) >= Abs(e.b2.vel[c] - g.b.vel[c])
          /\ (e.a2.vel[c] - g.a.vel[c]) * (e.b2.vel[c] - g.b.vel[c]) <= 0
          /\ 2 * Abs(g.a.mass * (e.a2.vel[c] - g.a.vel[c])
                       + g.b.mass * (e.b2.vel[c] - g.b.vel[c]))
                <= g.a.mass + g.b.mass

DampedFrom(e, g) ==
    ~RelV(g.a, g.b).nan =>
        DampedAsStated(e, g, RelV(g.a, g.b),
                       RMul(StatedRate(RelV(g.a, g.b), e), RInt(obs.dt)))

(* C22: in every iteration of a frame with dt > 0 whose pair is in the     *)
(* capture zone, the damping step multiplies the relative velocity         *)
(* vB - vA by 1 - k * dt, with k = 0.1 when the radial relative velocity   *)
(* is positive and k = 0.005 otherwise; A receives the share               *)
(* mB / (mA + mB) of the change and B the share mA / (mA + mB) in the      *)
(* opposite direction, so that the heavier body changes less and           *)
(* mA * vA + mB * vB is kept, as far as the stored numbers allow.          *)
C22_DampingSplit ==
    \A e \in Iterations :
        (e.damped /\ obs.dt > 0) => DampedFrom(e, BeforeDamping(e))

(* C22 witness: a forward frame has damped a pair of bodies of unequal     *)
(* masses that were separating after the gravity step, and the damping     *)
(* step changed the two velocities by different amounts.                   *)
C22_Changed(e) ==
    /\ e.damped /\ obs.dt > 0
    /\ e.a0.mass # e.b0.mass
    /\ ~e.a2.vel.nan /\ ~e.b2.vel.nan
    /\ Abs(e.a2.vel.x - BeforeDamping(e).a.vel.x)
          # Abs(e.b2.vel.x - BeforeDamping(e).b.vel.x)

C22_Witness ==
    \E e \in Iterations :
        /\ C22_Changed(e)
        /\ VDot(RelV(BeforeDamping(e).a, BeforeDamping(e).b),
                Delta(e.a0, e.b0)) > 0

(* dist < feedingThreshold, for feedingThreshold = 8 * (rA + rB) when one  *)
(* of the bodies is compact and 0 otherwise                                *)
WithinFeed(e) ==
    /\ IsBH(e.a0) \/ IsBH(e.b0)
    /\ 25 * SqDistance(e) < 16 * RadiusSum(e) * RadiusSum(e)

(* the pair of iteration e is in the feed zone and its prey has a mass of  *)
(* at most 0.1                                                             *)
StarvedPrey(e) ==
    /\ ~e.a0.pos.nan /\ ~e.b0.pos.nan
    /\ AtOrBeyondMerge(e) /\ WithinFeed(e)
    /\ LoserBefore(e).mass <= 1

StarOf(ss, id) == ss[FirstIdx(ss, id)]

(* a universe reset: the registry of stars is replaced by the rogue        *)
(* planets of a new universe                                               *)
StarsReset ==
    /\ Ids(stars') \cap Ids(stars) = {}
    /\ Len(stars') = NumRogue
    /\ \A k \in 1..Len(stars') : stars'[k].type = "RoguePlanet"

(* C23: a frame that evaluates a pair in the feed zone whose prey has a    *)
(* mass of at most 0.1 emits no mass transfer for it, leaves the prey's    *)
(* consumedBy, isShredding and velocity as they were before the feeding    *)
(* step, and leaves the prey in the registry with its flags as before the  *)
(* frame; and a star leaves the registry only as the loser of the merge of *)
(* a frame or by a universe reset, never by feeding.                       *)
C23_StarvedPreySkipped ==
    [][/\ (ticks' = ticks + 1) =>
             \A k \in 1..Len(obs'.tr) :
                 StarvedPrey(obs'.tr[k].e) =>
                    /\ ~obs'.tr[k].e.fed
                    /\ LoserAfter(obs'.tr[k].e) = LoserBefore(obs'.tr[k].e)
                    /\ NumFrom(obs', LoserBefore(obs'.tr[k].e).id) = 0
                    /\ LoserBefore(obs'.tr[k].e).id \in Ids(stars')
                    /\ StarOf(stars', LoserBefore(obs'.tr[k].e).id).consumedBy
                          = StarOf(stars, LoserBefore(obs'.tr[k].e).id).consumedBy
                    /\ StarOf(stars', LoserBefore(obs'.tr[k].e).id).isShredding
                          = StarOf(stars, LoserBefore(obs'.tr[k].e).id).isShredding
       /\ \A id \in Ids(stars) \ Ids(stars') :
             \/ ticks' = ticks + 1 /\ obs'.merged /\ obs'.loser = id
             \/ StarsReset]_vars

(* C23 witness: two forward frames have run over a compact body and a prey *)
(* of mass 0.1 in its feed zone; the last one fed nothing and the prey is  *)
(* in the registry, not shredding and consumed by nobody.                  *)
C23_Witness ==
    /\ ticks = 2 /\ obs.dt > 0
    /\ \E e \in Iterations :
          /\ StarvedPrey(e)
          /\ ~e.fed
          /\ LoserBefore(e).id \in Ids(stars)
          /\ ~StarOf(stars, LoserBefore(e).id).isShredding
          /\ StarOf(stars, LoserBefore(e).id).consumedBy = NoId

Defined(v) == ~v.nan

(* C24: a frame that evaluates a pair of stars at the same position merges *)
(* that pair in that frame, and after the frame the velocity and the       *)
(* position of every registered star are defined numbers.                  *)
C24_ZeroDistance ==
    \A e \in Iterations :
        (Defined(e.a0.pos) /\ Defined(e.a0.vel) /\ Defined(e.b0.vel)
            /\ e.a0.pos = e.b0.pos) =>
            /\ e.merged
            /\ \A k \in 1..Len(stars) :
                  Defined(stars[k].vel) /\ Defined(stars[k].pos)

(* what a universe reset leaves: 15 clouds that are not collapsing and 3   *)
(* rogue planets, all with ids that were never handed out before           *)
FreshUniverse ==
    /\ Len(clouds') = NumClouds
    /\ \A k \in 1..Len(clouds') : ~clouds'[k].isCollapsing
    /\ Len(stars') = NumRogue
    /\ \A k \in 1..Len(stars') : stars'[k].type = "RoguePlanet"
    /\ \A id \in Ids(clouds') \cup Ids(stars') : id > nextId
    /\ Cardinality(Ids(clouds') \cup Ids(stars')) = NumClouds + NumRogue

(* C25: a universe reset leaves exactly 15 dormant clouds and 3 rogue      *)
(* planets with fresh ids, and every star that enters the registry in any  *)
(* other step comes from a cloud that is in the registry in that step: no  *)
(* collapse of a cloud that a reset has discarded adds a star.             *)
C25_ResetIsClean ==
    [][/\ ResetStep => FreshUniverse
       /\ \A id \in Ids(stars') \ Ids(stars) :
             ResetStep \/ id \in Ids(clouds)]_vars

(* the sum of the masses of the stars of ss                                *)
RECURSIVE TotalMass(_)
TotalMass(ss) == IF ss = <<>> THEN 0 ELSE Head(ss).mass + TotalMass(Tail(ss))

(* C26: every frame, with the registry updates it triggers applied (the    *)
(* removal of a merger's loser, the flag update of a mass transfer),       *)
(* leaves the sum of the masses of the registered stars as it was, also    *)
(* when a star is fed upon by a compact body and wins a merge in the same  *)
(* frame.                                                                  *)
C26_MassConserved ==
    [][(ticks' = ticks + 1) => TotalMass(stars') = TotalMass(stars)]_vars

(* the iterations of frame o that evaluated the star at index m            *)
Involving(o, m) == {k \in 1..Len(o.tr) : o.tr[k].i = m \/ o.tr[k].j = m}

LastOf(S) == CHOOSE k \in S : \A n \in S : n <= k

(* the velocity the pair loop of frame o left the star at index m with:    *)
(* that of the last iteration that evaluated it, or v when none did        *)
VelAfterPass(o, m, v) ==
    IF Involving(o, m) = {} THEN v
    ELSE IF o.tr[LastOf(Involving(o, m))].i = m
         THEN o.tr[LastOf(Involving(o, m))].e.a3.vel
         ELSE o.tr[LastOf(Involving(o, m))].e.b3.vel

(* C27: a frame with dt # 0 changes no position while it evaluates pairs;  *)
(* every star it leaves in the registry has the velocity the pair loop     *)
(* left it with; if the frame resolved a merge, every such star has the    *)
(* position it had before the frame and, for dt > 0, is 10 * dt older;     *)
(* otherwise every star's position has advanced by that velocity times dt. *)
C27_PositionsAfterPass ==
    [][(ticks' = ticks + 1 /\ obs'.dt # 0) =>
          /\ \A k \in 1..Len(obs'.tr) :
                /\ obs'.tr[k].e.a0.pos = stars[obs'.tr[k].i].pos
                /\ obs'.tr[k].e.b0.pos = stars[obs'.tr[k].j].pos
                /\ obs'.tr[k].e.a3.pos = stars[obs'.tr[k].i].pos
                /\ obs'.tr[k].e.b3.pos = stars[obs'.tr[k].j].pos
          /\ \A m \in 1..Len(stars) :
                stars[m].id \in Ids(stars') =>
                   /\ StarOf(stars', stars[m].id).vel
                         = VelAfterPass(obs', m, stars[m].vel)
                   /\ StarOf(stars', stars[m].id).pos =
                         IF obs'.merged THEN stars[m].pos
                         ELSE VAdd(stars[m].pos,
                                   VScale(VelAfterPass(obs', m, stars[m].vel),
                                          obs'.dt))
                   /\ (obs'.merged /\ obs'.dt > 0) =>
                         StarOf(stars', stars[m].id).age
                            = stars[m].age + 10 * obs'.dt]_vars

(* C27 witness: the first forward frame over three stars resolved          *)
(* a merge after it had evaluated another pair; a star of that other pair  *)
(* is in the registry with a changed velocity, the position it started     *)
(* from and the age of one frame.                                          *)
C27_Witness ==
    /\ ticks = 1 /\ obs.merged /\ obs.dt > 0
    /\ \E e \in Iterations :
          /\ ~e.merged
          /\ e.a0.id \in Ids(stars)
          /\ e.a3.vel # e.a0.vel
          /\ Defined(e.a3.vel)
          /\ StarOf(stars, e.a0.id).vel # e.a0.vel
          /\ StarOf(stars, e.a0.id).pos = e.a0.pos
          /\ StarOf(stars, e.a0.id).age = 10 * obs.dt

(* the registered star s is outside the feeding zone of every compact body *)
(* of the registry                                                         *)
OutsideEveryFeedZone(s) ==
    /\ Defined(s.pos)
    /\ \A k \in 1..Len(stars) :
          (stars[k].id # s.id /\ IsBH(stars[k])) =>
              /\ Defined(stars[k].pos)
              /\ ~DistLt(Delta(s, stars[k]), FeedingThreshold(s, stars[k]))

(* frame o fed the star id to a compact body with the id p                 *)
FedTo(o, ss, id, p) ==
    /\ p \in Ids(ss) /\ IsBH(StarOf(ss, p))
    /\ \E k \in 1..Len(o.transfers) :
          o.transfers[k].source = id /\ o.transfers[k].target = p

(* C28: in every step, a star that stays in the registry and was shredding *)
(* is still shredding, and one whose consumedBy was set still has it set;  *)
(* consumedBy changes only in a frame that fed the star to the compact     *)
(* body it then names, and isShredding is set only in such a frame.        *)
C28_FlagsAreSticky ==
    [][\A m \in 1..Len(stars) :
          stars[m].id \in Ids(stars') =>
             /\ stars[m].isShredding =>
                   StarOf(stars', stars[m].id).isShredding
             /\ stars[m].consumedBy # NoId =>
                   StarOf(stars', stars[m].id).consumedBy # NoId
             /\ StarOf(stars', stars[m].id).consumedBy # stars[m].consumedBy =>
                   /\ ticks' = ticks + 1
                   /\ FedTo(obs', stars, stars[m].id,
                            StarOf(stars', stars[m].id).consumedBy)
             /\ StarOf(stars', stars[m].id).isShredding # stars[m].isShredding =>
                   /\ ticks' = ticks + 1
                   /\ NumFrom(obs', stars[m].id) > 0]_vars

(* C28 witness: a star that an earlier frame fed to a compact body is      *)
(* outside the feeding zone of every compact body of the registry; the     *)
(* last frame evaluated it without feeding it and it is still shredding    *)
(* and consumed by that body.                                              *)
C28_Witness ==
    /\ ticks = 2 /\ obs.dt # 0
    /\ ~obs.merged /\ Len(obs.tr) = Len(Pairs(Len(obs.objs)))
    /\ \E k \in 1..Len(stars) :
          /\ stars[k].isShredding
          /\ stars[k].consumedBy # NoId
          /\ NumFrom(obs, stars[k].id) = 0
          /\ OutsideEveryFeedZone(stars[k])
          /\ \E m \in 1..Len(stars) : IsBH(stars[m])

=============================================================================
